---- MODULE Spec2Model ----
(***************************************************************************)
(* Telesto: batch validation of routing queries (query.rs, input.rs), URL  *)
(* construction (url.rs), and the chunked, rate-limited dispatch of the    *)
(* requests (request.rs) with response tagging (response.rs), as driven by *)
(* main.rs.                                                                *)
(*                                                                         *)
(* Text is modelled as sequences of one-character strings, response bodies *)
(* as sequences of bytes, coordinates as fixed-point integers in           *)
(* millionths of a degree, instants as integer ticks of 1/TicksPerSecond s.*)
(***************************************************************************)
EXTENDS Integers, Sequences, FiniteSets, TLC

VARIABLES
    pc,                  \* position of the program
    requests,            \* execute_requests: the `requests` slice
    rate_limit,          \* execute_requests: the `rate_limit` argument
    consumed,            \* number of items already pulled from url_iter
    pending,             \* URLs of the current chunk not yet pulled by buffered()
    in_progress,         \* FuturesOrdered.in_progress: requests in flight
    queued_results,      \* FuturesOrdered.queued_results: resolved, not yet yielded
    next_incoming_index, \* FuturesOrdered.next_incoming_index
    next_outgoing_index, \* FuturesOrdered.next_outgoing_index
    responses,           \* the `responses` vector of execute_requests
    waits,               \* number of completed ratelimit.wait() calls
    result,              \* what execute_requests returned
    sent,                \* transport log: every request issued, in order
    delivered,           \* transport log: body delivered per input position
    chunks_log,          \* the chunks handed out by chunks(rate_limit), in order
    completed,           \* transport log: input positions in order of resolution
    failed,              \* transport log: input positions whose request failed
    server_bodies,       \* environment: the bodies the remote service may answer
    record,              \* Query::from_csv_record: the CsvRecord `inp`
    now,                 \* the reference instant `now`
    outcome,             \* what Query::from_csv_record returned
    rendered,            \* Query::to_string() of the returned Query
    dep,                 \* DepartureTime::shift: the value `self`
    shifted,             \* what DepartureTime::shift returned
    rows,                \* run: the rows of the input, as the csv reader yields them
    credentials,         \* run: args.credentials
    queries,             \* run: the queries read_csv returned
    exit_status,         \* run: the status the process ended with
    stderr,              \* run: the error reported, outermost first
    output,              \* run: the document handed to output::export
    inp_a,               \* Avoidances::new: the slice `inp` of a first call
    inp_b,               \* Avoidances::new: the slice `inp` of a second call
    avoid_a,             \* the Avoidances the first call returned
    avoid_b,             \* the Avoidances the second call returned
    text_a,              \* avoid_a.to_string()
    reparsed,            \* text_a.parse::<Avoidances>()
    query_a,             \* to_string() of a Query holding avoid_a
    query_a2,            \* to_string() of the same Query, called again
    query_b,             \* to_string() of an equal Query holding avoid_b
    arg_lat,             \* Coord::new: the argument `lat`
    arg_lon,             \* Coord::new: the argument `lon`
    coord,               \* what Coord::new returned
    arg_path_and_query,  \* sign_url: the argument `path_and_query`, as bytes
    arg_private_key,     \* sign_url: the argument `private_key`, as bytes
    signed               \* what sign_url returned

dvars == <<requests, rate_limit, consumed, pending, in_progress, queued_results,
           next_incoming_index, next_outgoing_index, responses, waits, result,
           sent, delivered, chunks_log, completed, failed, server_bodies>>

qvars == <<record, now, outcome, rendered>>

svars == <<dep, shifted>>

rvars == <<rows, credentials, queries, exit_status, stderr, output>>

avars == <<inp_a, inp_b, avoid_a, avoid_b, text_a, reparsed, query_a, query_a2,
           query_b>>

cvars == <<arg_lat, arg_lon, coord>>

gvars == <<arg_path_and_query, arg_private_key, signed>>

xvars == <<avars, cvars, gvars>>

vars == <<pc, dvars, qvars, svars, rvars, xvars>>

----------------------------------------------------------------------------
(* Bounds of the model *)

MaxUrls == 3
MaxRate == 2

Ids == {"a", "b"}
Urls == {"u1", "u2"}

(* Response bodies the transport may deliver, as bytes:                    *)
(* "1", "[]", "[1]" (JSON), "[" (not JSON), 0xFF (not UTF-8).              *)
Bodies == { <<49>>, <<91, 93>>, <<91, 49, 93>>, <<91>>, <<255>> }

NoBody == <<0>>
None == [tag |-> "None"]

(* The variables of the parts of the program that are not running *)
QueryIdle == record = None /\ outcome = None /\ rendered = None

ShiftIdle == dep = None /\ shifted = None

AvoidIdle ==
    /\ inp_a = None /\ inp_b = None /\ avoid_a = None /\ avoid_b = None
    /\ text_a = None /\ reparsed = None
    /\ query_a = None /\ query_a2 = None /\ query_b = None

CoordIdle == arg_lat = None /\ arg_lon = None /\ coord = None

SignIdle ==
    arg_path_and_query = None /\ arg_private_key = None /\ signed = None

PureIdle == AvoidIdle /\ CoordIdle /\ SignIdle

RunIdle ==
    /\ rows = None /\ credentials = None /\ queries = None
    /\ exit_status = None /\ stderr = None /\ output = None

----------------------------------------------------------------------------
(* Helpers over sequences *)

Min(a, b) == IF a < b THEN a ELSE b

SeqsUpTo(S, n) == UNION { [1..k -> S] : k \in 0..n }

Take(s, n) == SubSeq(s, 1, Min(n, Len(s)))

Drop(s, n) == SubSeq(s, Min(n, Len(s)) + 1, Len(s))

RECURSIVE Concat(_)
Concat(ss) == IF ss = <<>> THEN <<>> ELSE Head(ss) \o Concat(Tail(ss))

----------------------------------------------------------------------------
(* response.rs *)

IsDigit(b) == b >= 48 /\ b <= 57

(* str::from_utf8: on the modelled byte alphabet a body is valid UTF-8     *)
(* exactly when all its bytes are ASCII (0xFF occurs in no UTF-8 text).    *)
from_utf8_ok(b) == \A i \in 1..Len(b) : b[i] < 128

(* serde_json::from_str restricted to numbers and arrays without blanks:   *)
(* value := digits | "[" "]" | "[" value {"," value} "]".                  *)
(* ParseValue returns [ok, value, next] for the text from position p.      *)
RECURSIVE ParseNumber(_, _, _)
ParseNumber(s, p, acc) ==
    IF p <= Len(s) /\ IsDigit(s[p])
    THEN ParseNumber(s, p + 1, acc * 10 + (s[p] - 48))
    ELSE [ok |-> TRUE, value |-> [type |-> "number", n |-> acc], next |-> p]

RECURSIVE ParseValue(_, _)
RECURSIVE ParseItems(_, _, _)
ParseItems(s, p, items) ==
    LET v == ParseValue(s, p) IN
    IF ~v.ok THEN [ok |-> FALSE]
    ELSE IF v.next <= Len(s) /\ s[v.next] = 93
         THEN [ok |-> TRUE,
               value |-> [type |-> "array", items |-> Append(items, v.value)],
               next |-> v.next + 1]
    ELSE IF v.next <= Len(s) /\ s[v.next] = 44
         THEN ParseItems(s, v.next + 1, Append(items, v.value))
    ELSE [ok |-> FALSE]

ParseValue(s, p) ==
    IF p > Len(s) THEN [ok |-> FALSE]
    ELSE IF IsDigit(s[p]) THEN ParseNumber(s, p, 0)
    ELSE IF s[p] = 91
         THEN IF p + 1 <= Len(s) /\ s[p + 1] = 93
              THEN [ok |-> TRUE, value |-> [type |-> "array", items |-> <<>>],
                    next |-> p + 2]
              ELSE ParseItems(s, p + 1, <<>>)
    ELSE [ok |-> FALSE]

serde_json_from_str(s) ==
    LET v == ParseValue(s, 1) IN
    IF v.ok /\ v.next = Len(s) + 1
    THEN [ok |-> TRUE, value |-> v.value]
    ELSE [ok |-> FALSE]

MalformedJson ==
    [type |-> "object",
     error_message |-> "Malformed JSON received from server.",
     routes |-> <<>>,
     status |-> "MALFORMED_JSON"]

TaggedResponse_new(id, response) ==
    LET parsed == serde_json_from_str(response) IN
    [id |-> id,
     response |-> IF parsed.ok THEN parsed.value ELSE MalformedJson]

----------------------------------------------------------------------------
(* Text and numbers.                                                       *)
(* A text is a sequence of atoms (strings) whose concatenation it is:      *)
(* numbers are written one character per atom, keywords as one atom.       *)
(* An f64 is [kind |-> "num", micro |-> millionths] or [kind |-> "nan"];   *)
(* an i64 is [neg, mag] with mag its decimal digits without leading zeros. *)

Ok(v) == [tag |-> "Ok", value |-> v]

Err(e) == [tag |-> "Err", error |-> e]

Some(v) == [some |-> TRUE, v |-> v]

Absent == [some |-> FALSE]

DecDigits == <<"0", "1", "2", "3", "4", "5", "6", "7", "8", "9">>

IsDecDigit(c) == \E i \in 1..Len(DecDigits) : DecDigits[i] = c

DigitVal(c) == (CHOOSE i \in 1..Len(DecDigits) : DecDigits[i] = c) - 1

AllDigits(t) == \A i \in 1..Len(t) : IsDecDigit(t[i])

RECURSIVE NatOf(_)
NatOf(t) ==
    IF t = <<>> THEN 0
    ELSE NatOf(SubSeq(t, 1, Len(t) - 1)) * 10 + DigitVal(t[Len(t)])

RECURSIVE DigitsOf(_)
DigitsOf(n) ==
    IF n < 10 THEN << DecDigits[n + 1] >>
    ELSE DigitsOf(n \div 10) \o << DecDigits[(n % 10) + 1] >>

RECURSIVE StripZeros(_)
StripZeros(t) ==
    IF Len(t) > 1 /\ t[1] = "0" THEN StripZeros(Tail(t)) ELSE t

(* a <= b for digit sequences without leading zeros *)
BigLe(a, b) ==
    \/ Len(a) < Len(b)
    \/ /\ Len(a) = Len(b)
       /\ \/ a = b
          \/ \E i \in 1..Len(a) :
                /\ DigitVal(a[i]) < DigitVal(b[i])
                /\ \A j \in 1..(i - 1) : a[j] = b[j]

StripSign(t) ==
    IF t # <<>> /\ t[1] \in {"+", "-"}
    THEN [neg |-> t[1] = "-", rest |-> Tail(t)]
    ELSE [neg |-> FALSE, rest |-> t]

Abs(n) == IF n < 0 THEN -n ELSE n

I64Of(n) == [neg |-> n < 0, mag |-> DigitsOf(Abs(n))]

I64_MAX_MAG == <<"9","2","2","3","3","7","2","0","3","6","8","5","4","7","7","5","8","0","7">>

I64_MIN_MAG == <<"9","2","2","3","3","7","2","0","3","6","8","5","4","7","7","5","8","0","8">>

(* query.rs: to_i64 (str::parse::<i64>) *)
to_i64(inp) ==
    LET s == StripSign(inp)
        mag == StripZeros(s.rest)
    IN IF s.rest # <<>> /\ AllDigits(s.rest)
          /\ BigLe(mag, IF s.neg THEN I64_MIN_MAG ELSE I64_MAX_MAG)
       THEN Ok([neg |-> s.neg /\ mag # <<"0">>, mag |-> mag])
       ELSE Err([kind |-> "InvalidInt", inv |-> inp])

Micro == 1000000

FracDigits == 6

(* The first FracDigits digits of a fraction, padded with zeros *)
PadFrac(fp) ==
    [i \in 1..FracDigits |-> IF i <= Len(fp) THEN fp[i] ELSE "0"]

NaN == [kind |-> "nan"]

Num(m) == [kind |-> "num", micro |-> m]

(* query.rs: to_f64 (str::parse::<f64>), for texts [+-]digits[.digits]    *)
(* with at most six fractional digits, and "NaN".                          *)
to_f64(inp) ==
    LET s == StripSign(inp)
        body == s.rest
        dots == { i \in 1..Len(body) : body[i] = "." }
        dot == IF dots = {} THEN Len(body) + 1 ELSE CHOOSE i \in dots : TRUE
        ip == SubSeq(body, 1, dot - 1)
        fp == SubSeq(body, dot + 1, Len(body))
        m == NatOf(ip) * Micro + NatOf(PadFrac(fp))
    IN IF inp = <<"NaN">> THEN Ok(NaN)
       ELSE IF Cardinality(dots) <= 1 /\ AllDigits(ip) /\ AllDigits(fp)
               /\ Len(ip) + Len(fp) > 0
       THEN Ok(Num(IF s.neg THEN -m ELSE m))
       ELSE Err([kind |-> "InvalidFloat", inv |-> inp])

(* f64 comparison: false whenever an operand is NaN *)
F64Lt(a, b) == a.kind = "num" /\ b.kind = "num" /\ a.micro < b.micro

F64Gt(a, b) == F64Lt(b, a)

(* format!("{:.6}", x) *)
F64Fmt6(x) ==
    IF x.kind = "nan" THEN <<"NaN">>
    ELSE LET a == Abs(x.micro)
             fr == DigitsOf(a % Micro)
             pad == [i \in 1..(FracDigits - Len(fr)) |-> "0"]
         IN (IF x.micro < 0 THEN <<"-">> ELSE <<>>)
            \o DigitsOf(a \div Micro) \o <<".">> \o pad \o fr

----------------------------------------------------------------------------
(* query.rs: Coord *)

LAT_BOUNDS == << Num(-90 * Micro), Num(90 * Micro) >>

LON_BOUNDS == << Num(-180 * Micro), Num(180 * Micro) >>

Coord_new(lat, lon) ==
    IF F64Lt(lat, LAT_BOUNDS[1]) \/ F64Gt(lat, LAT_BOUNDS[2])
    THEN Err([kind |-> "InvalidLatitude", inv |-> lat])
    ELSE IF F64Lt(lon, LON_BOUNDS[1]) \/ F64Gt(lon, LON_BOUNDS[2])
    THEN Err([kind |-> "InvalidLongitude", inv |-> lat])
    ELSE Ok([lat |-> lat, lon |-> lon])

Coord_fmt(c) == F64Fmt6(c.lat) \o <<",">> \o F64Fmt6(c.lon)

----------------------------------------------------------------------------
(* query.rs: DepartureTime. A NaiveDateTime is [secs, frac]: whole seconds *)
(* since the epoch and a fraction in units of 1/SubSecond second.          *)

WEEK_IN_SECONDS == 604800

SubSecond == 2

(* chrono's calendar range, years -262144 to 262143, as timestamps *)
MAX_TIMESTAMP_MAG == <<"8","2","1","0","2","9","8","4","1","2","7","9","9">>

MIN_TIMESTAMP_MAG == <<"8","3","3","4","6","3","2","9","3","7","6","0","0">>

DepartureTime_new(timestamp) ==
    IF BigLe(timestamp.mag,
             IF timestamp.neg THEN MIN_TIMESTAMP_MAG ELSE MAX_TIMESTAMP_MAG)
    THEN Ok([secs |-> IF timestamp.neg THEN -NatOf(timestamp.mag)
                      ELSE NatOf(timestamp.mag),
             frac |-> 0])
    ELSE Err([kind |-> "InvalidTime", inv |-> timestamp])

NaiveLt(a, b) == a.secs < b.secs \/ (a.secs = b.secs /\ a.frac < b.frac)

(* a.signed_duration_since(b).num_seconds(): whole seconds, truncated      *)
(* toward zero.                                                            *)
NumSeconds(a, b) ==
    LET s == a.secs - b.secs
        f == a.frac - b.frac
    IN IF s < 0 /\ f > 0 THEN s + 1
       ELSE IF s > 0 /\ f < 0 THEN s - 1
       ELSE s

(* Variant of DepartureTime_shift: a time not before `now` is rolled too. *)
DepartureTime_shift_Always(self, t) ==
    [secs |-> self.secs + WEEK_IN_SECONDS, frac |-> self.frac]

DepartureTime_shift(self, t) ==
    IF NaiveLt(self, t)
    THEN LET delta == NumSeconds(t, self)
             remainder == delta % WEEK_IN_SECONDS
             weeks == IF remainder = 0
                      THEN delta \div WEEK_IN_SECONDS
                      ELSE delta \div WEEK_IN_SECONDS + 1
         IN [secs |-> self.secs + weeks * WEEK_IN_SECONDS, frac |-> self.frac]
    ELSE self

(* self.0.timestamp() written in decimal *)
DepartureTime_fmt(d) ==
    (IF d.secs < 0 THEN <<"-">> ELSE <<>>) \o DigitsOf(Abs(d.secs))

----------------------------------------------------------------------------
(* query.rs: Mode, Avoidance, Avoidances, TrafficModel *)

Mode_from_str(s) ==
    CASE s = <<"driving">> -> Ok("Driving")
      [] s = <<"walking">> -> Ok("Walking")
      [] s = <<"bicycling">> -> Ok("Bicycling")
      [] s = <<"transit">> -> Ok("Transit")
      [] OTHER -> Err([kind |-> "UnknownMode", unk |-> s])

Mode_fmt(m) ==
    CASE m = "Bicycling" -> <<"bicycling">>
      [] m = "Driving" -> <<"driving">>
      [] m = "Transit" -> <<"transit">>
      [] m = "Walking" -> <<"walking">>

Avoidance_from_str(s) ==
    CASE s = <<"tolls">> -> Ok("Tolls")
      [] s = <<"highways">> -> Ok("Highways")
      [] s = <<"ferries">> -> Ok("Ferries")
      [] s = <<"indoors">> -> Ok("Indoors")
      [] OTHER -> Err([kind |-> "UnknownAvoidance", unk |-> s])

Avoidance_fmt(a) ==
    CASE a = "Tolls" -> <<"tolls">>
      [] a = "Highways" -> <<"highways">>
      [] a = "Ferries" -> <<"ferries">>
      [] a = "Indoors" -> <<"indoors">>

(* Avoidances::new: inp.iter().cloned().collect() into a HashSet *)
Avoidances_new(inp) == { inp[i] : i \in 1..Len(inp) }

(* s.split(sep): the pieces of s between the separators *)
RECURSIVE Split(_, _)
Split(s, sep) ==
    IF \E i \in 1..Len(s) : s[i] = sep
    THEN LET i == CHOOSE i \in 1..Len(s) :
                      s[i] = sep /\ \A j \in 1..(i - 1) : s[j] # sep
         IN << SubSeq(s, 1, i - 1) >> \o Split(SubSeq(s, i + 1, Len(s)), sep)
    ELSE << s >>

(* itertools::join(iter, sep) *)
RECURSIVE Join(_, _)
Join(items, sep) ==
    IF items = <<>> THEN <<>>
    ELSE IF Len(items) = 1 THEN items[1]
    ELSE items[1] \o <<sep>> \o Join(Tail(items), sep)

(* itertools::process_results: the first error, or all the values *)
RECURSIVE ProcessResults(_)
ProcessResults(rs) ==
    IF rs = <<>> THEN Ok(<<>>)
    ELSE IF rs[1].tag = "Err" THEN rs[1]
    ELSE LET rest == ProcessResults(Tail(rs))
         IN IF rest.tag = "Err" THEN rest
            ELSE Ok(<<rs[1].value>> \o rest.value)

(* Variant of Avoidances_from_str: only the first token is kept. *)
Avoidances_from_str_FirstToken(s) ==
    IF s = <<>> THEN Ok(Avoidances_new(<<>>))
    ELSE LET tokens == Split(s, "|")
             parsed == ProcessResults(<< Avoidance_from_str(tokens[1]) >>)
         IN IF parsed.tag = "Err" THEN parsed
            ELSE Ok(Avoidances_new(parsed.value))

Avoidances_from_str(s) ==
    IF s = <<>> THEN Ok(Avoidances_new(<<>>))
    ELSE LET tokens == Split(s, "|")
             parsed == ProcessResults(
                 [i \in 1..Len(tokens) |-> Avoidance_from_str(tokens[i])])
         IN IF parsed.tag = "Err" THEN parsed
            ELSE Ok(Avoidances_new(parsed.value))

(* The orders in which a HashSet may iterate over its members *)
IterOrders(S) ==
    { f \in [1..Cardinality(S) -> S] : \A x \in S : \E i \in DOMAIN f : f[i] = x }

(* Display for Avoidances, the set iterating in `order` *)
Avoidances_fmt(order) ==
    Join([i \in 1..Len(order) |-> Avoidance_fmt(order[i])], "|")

TrafficModel_from_str(s) ==
    CASE s = <<"best_guess">> -> Ok("BestGuess")
      [] s = <<"pessimistic">> -> Ok("Pessimistic")
      [] s = <<"optimistic">> -> Ok("Optimistic")
      [] OTHER -> Err([kind |-> "UnknownTrafficModel", unk |-> s])

TrafficModel_fmt(t) ==
    CASE t = "BestGuess" -> <<"best_guess">>
      [] t = "Pessimistic" -> <<"pessimistic">>
      [] t = "Optimistic" -> <<"optimistic">>

----------------------------------------------------------------------------
(* query.rs: Query *)

(* Variant of MissingTrafficModel: the cross-field check is left out. *)
MissingTrafficModel_Unchecked(mode, traffic_model) == FALSE

(* mode == Mode::Driving && traffic_model.is_none() *)
MissingTrafficModel(mode, traffic_model) ==
    mode = "Driving" /\ ~traffic_model.some

(* Some(a) => Some(a.parse::<Avoidances>()?), None => None *)
ParseOptionalAvoidances(field) ==
    IF ~field.some THEN Ok(Absent)
    ELSE LET r == Avoidances_from_str(field.v)
         IN IF r.tag = "Err" THEN r ELSE Ok(Some(r.value))

(* Some(t) => Some(t.parse::<TrafficModel>()?), None => None *)
ParseOptionalTrafficModel(field) ==
    IF ~field.some THEN Ok(Absent)
    ELSE LET r == TrafficModel_from_str(field.v)
         IN IF r.tag = "Err" THEN r ELSE Ok(Some(r.value))

Query_from_csv_record(inp, t) ==
    LET origin_lat == to_f64(inp.origin_lat)
        origin_lon == to_f64(inp.origin_lon)
        destination_lat == to_f64(inp.destination_lat)
        destination_lon == to_f64(inp.destination_lon)
        departure_time == to_i64(inp.departure_time)
    IN
    IF origin_lat.tag = "Err" THEN origin_lat
    ELSE IF origin_lon.tag = "Err" THEN origin_lon
    ELSE IF destination_lat.tag = "Err" THEN destination_lat
    ELSE IF destination_lon.tag = "Err" THEN destination_lon
    ELSE IF departure_time.tag = "Err" THEN departure_time
    ELSE
    LET origin == Coord_new(origin_lat.value, origin_lon.value) IN
    IF origin.tag = "Err" THEN origin
    ELSE
    LET destination == Coord_new(destination_lat.value, destination_lon.value) IN
    IF destination.tag = "Err" THEN destination
    ELSE
    LET dt == DepartureTime_new(departure_time.value) IN
    IF dt.tag = "Err" THEN dt
    ELSE
    LET mode == Mode_from_str(inp.mode) IN
    IF mode.tag = "Err" THEN mode
    ELSE
    LET avoidances == ParseOptionalAvoidances(inp.avoidances) IN
    IF avoidances.tag = "Err" THEN avoidances
    ELSE
    LET traffic_model == ParseOptionalTrafficModel(inp.traffic_model) IN
    IF traffic_model.tag = "Err" THEN traffic_model
    ELSE IF MissingTrafficModel(mode.value, traffic_model.value)
    THEN Err([kind |-> "MissingTrafficModel"])
    ELSE Ok([id |-> inp.id,
             origin |-> origin.value,
             destination |-> destination.value,
             departure_time |-> DepartureTime_shift(dt.value, t),
             mode |-> mode.value,
             avoidances |-> avoidances.value,
             traffic_model |-> traffic_model.value])

(* Variant of Query_fmt: traffic_model is written before avoid. *)
Query_fmt_Swapped(q, order) ==
    <<"origin", "=">> \o Coord_fmt(q.origin)
    \o <<"&">> \o <<"destination", "=">> \o Coord_fmt(q.destination)
    \o <<"&">> \o <<"departure_time", "=">> \o DepartureTime_fmt(q.departure_time)
    \o <<"&">> \o <<"mode", "=">> \o Mode_fmt(q.mode)
    \o (IF q.traffic_model.some
        THEN <<"&">> \o <<"traffic_model", "=">> \o TrafficModel_fmt(q.traffic_model.v)
        ELSE <<>>)
    \o (IF q.avoidances.some
        THEN <<"&">> \o <<"avoid", "=">> \o Avoidances_fmt(order)
        ELSE <<>>)

(* Display for Query; `order` is the order in which the avoidances set     *)
(* iterates.                                                               *)
Query_fmt(q, order) ==
    <<"origin", "=">> \o Coord_fmt(q.origin)
    \o <<"&">> \o <<"destination", "=">> \o Coord_fmt(q.destination)
    \o <<"&">> \o <<"departure_time", "=">> \o DepartureTime_fmt(q.departure_time)
    \o <<"&">> \o <<"mode", "=">> \o Mode_fmt(q.mode)
    \o (IF q.avoidances.some
        THEN <<"&">> \o <<"avoid", "=">> \o Avoidances_fmt(order)
        ELSE <<>>)
    \o (IF q.traffic_model.some
        THEN <<"&">> \o <<"traffic_model", "=">> \o TrafficModel_fmt(q.traffic_model.v)
        ELSE <<>>)

----------------------------------------------------------------------------
(* input.rs: read_csv. A row is what rdr.deserialize() yields for it:      *)
(* [ok |-> TRUE, record |-> CsvRecord] or [ok |-> FALSE] (a csv error).    *)

(* The error `cause` under the context InputError::Line { ln } *)
LineError(ln, cause) == Err(<< [kind |-> "Line", ln |-> ln] >> \o cause)

(* Variant of ReadCsvFrom: a row that is not valid is skipped. *)
RECURSIVE ReadCsvFrom_SkipInvalid(_, _, _, _, _)
ReadCsvFrom_SkipInvalid(rs, i, acc, current_line, t) ==
    IF i > Len(rs) THEN Ok(acc)
    ELSE IF ~rs[i].ok
    THEN ReadCsvFrom_SkipInvalid(rs, i + 1, acc, current_line, t)
    ELSE LET q == Query_from_csv_record(rs[i].record, t)
         IN IF q.tag = "Err"
            THEN ReadCsvFrom_SkipInvalid(rs, i + 1, acc, current_line, t)
            ELSE ReadCsvFrom_SkipInvalid(rs, i + 1, Append(acc, q.value),
                                         current_line + 1, t)

(* The loop of read_csv from row i on, `acc` being the queries pushed so   *)
(* far.                                                                    *)
RECURSIVE ReadCsvFrom(_, _, _, _, _)
ReadCsvFrom(rs, i, acc, current_line, t) ==
    IF i > Len(rs) THEN Ok(acc)
    ELSE IF ~rs[i].ok
    THEN LineError(current_line, << [kind |-> "Csv"] >>)
    ELSE LET q == Query_from_csv_record(rs[i].record, t)
         IN IF q.tag = "Err"
            THEN LineError(current_line, << q.error >>)
            ELSE ReadCsvFrom(rs, i + 1, Append(acc, q.value),
                             current_line + 1, t)

read_csv(inp, t) == ReadCsvFrom(inp, 1, <<>>, 1, t)

----------------------------------------------------------------------------
(* url.rs *)

DOMAIN_TEXT == << "https://maps.googleapis.com" >>

PATH == << "/maps/api/directions/json" >>

(* The text as one string *)
RECURSIVE Flat(_)
Flat(t) == IF t = <<>> THEN "" ELSE t[1] \o Flat(Tail(t))

(* inp.parse::<Url>(): a text that starts with the scheme and host parses *)
parse_url(inp) ==
    IF inp # <<>> /\ inp[1] = DOMAIN_TEXT[1]
    THEN Ok(inp)
    ELSE Err(<< [kind |-> "InvalidUrl", inv |-> inp] >>)

Base64UrlSafe ==
    { "A", "B", "C", "D", "E", "F", "G", "H", "I", "J", "K", "L", "M",
      "N", "O", "P", "Q", "R", "S", "T", "U", "V", "W", "X", "Y", "Z",
      "a", "b", "c", "d", "e", "f", "g", "h", "i", "j", "k", "l", "m",
      "n", "o", "p", "q", "r", "s", "t", "u", "v", "w", "x", "y", "z",
      "0", "1", "2", "3", "4", "5", "6", "7", "8", "9", "-", "_" }

(* base64::decode_config(key, URL_SAFE) succeeds: groups of four symbols,  *)
(* "=" only as padding at the end.                                         *)
base64_decode_ok(key) ==
    /\ Len(key) % 4 = 0
    /\ \A i \in 1..Len(key) :
          \/ key[i] \in Base64UrlSafe
          \/ /\ key[i] = "="
             /\ i >= Len(key) - 1
             /\ \A j \in (i + 1)..Len(key) : key[j] = "="

(* sign_url: the signature is kept symbolic, one atom naming the key and   *)
(* the text signed.                                                        *)
sign_url(path_and_query, private_key) ==
    IF base64_decode_ok(private_key)
    THEN Ok(<< "HMAC-SHA1(" \o Flat(private_key) \o ";"
               \o Flat(path_and_query) \o ")" >>)
    ELSE Err(<< [kind |-> "Base64Decode"] >>)

build_normal_url(query, order, api_key) ==
    LET query_string == Query_fmt(query, order)
        key_parameter == <<"key", "=">> \o api_key
        uri_str == DOMAIN_TEXT \o PATH \o <<"?">> \o query_string
                   \o <<"&">> \o key_parameter
        url == parse_url(uri_str)
    IN IF url.tag = "Err" THEN url
       ELSE Ok([id |-> query.id, url |-> url.value])

(* Variant of build_premium_url: the channel parameter is appended after   *)
(* the text has been signed.                                               *)
build_premium_url_ChannelUnsigned(query, order, client_id, private_key, channel) ==
    LET query_string == Query_fmt(query, order)
        client_id_parameter == <<"client", "=">> \o client_id
        signed_part == PATH \o <<"?">> \o query_string \o <<"&">>
                       \o client_id_parameter
        path_and_query ==
            IF channel.some
            THEN signed_part \o <<"&">> \o <<"channel", "=">> \o channel.v
            ELSE signed_part
        signature == sign_url(signed_part, private_key)
    IN IF signature.tag = "Err" THEN signature
       ELSE LET url_str == DOMAIN_TEXT \o path_and_query \o <<"&">>
                           \o <<"signature", "=">> \o signature.value
                url == parse_url(url_str)
            IN IF url.tag = "Err" THEN url
               ELSE Ok([id |-> query.id, url |-> url.value])

build_premium_url(query, order, client_id, private_key, channel) ==
    LET query_string == Query_fmt(query, order)
        client_id_parameter == <<"client", "=">> \o client_id
        path_and_query ==
            IF channel.some
            THEN PATH \o <<"?">> \o query_string \o <<"&">>
                 \o client_id_parameter \o <<"&">>
                 \o <<"channel", "=">> \o channel.v
            ELSE PATH \o <<"?">> \o query_string \o <<"&">>
                 \o client_id_parameter
        signature == sign_url(path_and_query, private_key)
    IN IF signature.tag = "Err" THEN signature
       ELSE LET url_str == DOMAIN_TEXT \o path_and_query \o <<"&">>
                           \o <<"signature", "=">> \o signature.value
                url == parse_url(url_str)
            IN IF url.tag = "Err" THEN url
               ELSE Ok([id |-> query.id, url |-> url.value])

(* TaggedUrl::new; `order` is the order in which the query's avoidances    *)
(* set iterates while the query is rendered.                               *)
TaggedUrl_new(query, order, creds) ==
    IF creds.kind = "Normal"
    THEN build_normal_url(query, order, creds.api_key)
    ELSE build_premium_url(query, order, creds.client_id, creds.private_key,
                           creds.channel)

----------------------------------------------------------------------------
(* url.rs: sign_url on bytes. base64::decode_config / encode_config with   *)
(* URL_SAFE, Hmac::new(Sha1::new(), key), input, result().code().          *)
(* A 32-bit word is <<hi, lo>>, its two 16-bit halves.                     *)

XorNibble ==
   << <<0, 1, 2, 3, 4, 5, 6, 7, 8, 9, 10, 11, 12, 13, 14, 15>>,
      <<1, 0, 3, 2, 5, 4, 7, 6, 9, 8, 11, 10, 13, 12, 15, 14>>,
      <<2, 3, 0, 1, 6, 7, 4, 5, 10, 11, 8, 9, 14, 15, 12, 13>>,
      <<3, 2, 1, 0, 7, 6, 5, 4, 11, 10, 9, 8, 15, 14, 13, 12>>,
      <<4, 5, 6, 7, 0, 1, 2, 3, 12, 13, 14, 15, 8, 9, 10, 11>>,
      <<5, 4, 7, 6, 1, 0, 3, 2, 13, 12, 15, 14, 9, 8, 11, 10>>,
      <<6, 7, 4, 5, 2, 3, 0, 1, 14, 15, 12, 13, 10, 11, 8, 9>>,
      <<7, 6, 5, 4, 3, 2, 1, 0, 15, 14, 13, 12, 11, 10, 9, 8>>,
      <<8, 9, 10, 11, 12, 13, 14, 15, 0, 1, 2, 3, 4, 5, 6, 7>>,
      <<9, 8, 11, 10, 13, 12, 15, 14, 1, 0, 3, 2, 5, 4, 7, 6>>,
      <<10, 11, 8, 9, 14, 15, 12, 13, 2, 3, 0, 1, 6, 7, 4, 5>>,
      <<11, 10, 9, 8, 15, 14, 13, 12, 3, 2, 1, 0, 7, 6, 5, 4>>,
      <<12, 13, 14, 15, 8, 9, 10, 11, 4, 5, 6, 7, 0, 1, 2, 3>>,
      <<13, 12, 15, 14, 9, 8, 11, 10, 5, 4, 7, 6, 1, 0, 3, 2>>,
      <<14, 15, 12, 13, 10, 11, 8, 9, 6, 7, 4, 5, 2, 3, 0, 1>>,
      <<15, 14, 13, 12, 11, 10, 9, 8, 7, 6, 5, 4, 3, 2, 1, 0>> >>

AndNibble ==
   << <<0, 0, 0, 0, 0, 0, 0, 0, 0, 0, 0, 0, 0, 0, 0, 0>>,
      <<0, 1, 0, 1, 0, 1, 0, 1, 0, 1, 0, 1, 0, 1, 0, 1>>,
      <<0, 0, 2, 2, 0, 0, 2, 2, 0, 0, 2, 2, 0, 0, 2, 2>>,
      <<0, 1, 2, 3, 0, 1, 2, 3, 0, 1, 2, 3, 0, 1, 2, 3>>,
      <<0, 0, 0, 0, 4, 4, 4, 4, 0, 0, 0, 0, 4, 4, 4, 4>>,
      <<0, 1, 0, 1, 4, 5, 4, 5, 0, 1, 0, 1, 4, 5, 4, 5>>,
      <<0, 0, 2, 2, 4, 4, 6, 6, 0, 0, 2, 2, 4, 4, 6, 6>>,
      <<0, 1, 2, 3, 4, 5, 6, 7, 0, 1, 2, 3, 4, 5, 6, 7>>,
      <<0, 0, 0, 0, 0, 0, 0, 0, 8, 8, 8, 8, 8, 8, 8, 8>>,
      <<0, 1, 0, 1, 0, 1, 0, 1, 8, 9, 8, 9, 8, 9, 8, 9>>,
      <<0, 0, 2, 2, 0, 0, 2, 2, 8, 8, 10, 10, 8, 8, 10, 10>>,
      <<0, 1, 2, 3, 0, 1, 2, 3, 8, 9, 10, 11, 8, 9, 10, 11>>,
      <<0, 0, 0, 0, 4, 4, 4, 4, 8, 8, 8, 8, 12, 12, 12, 12>>,
      <<0, 1, 0, 1, 4, 5, 4, 5, 8, 9, 8, 9, 12, 13, 12, 13>>,
      <<0, 0, 2, 2, 4, 4, 6, 6, 8, 8, 10, 10, 12, 12, 14, 14>>,
      <<0, 1, 2, 3, 4, 5, 6, 7, 8, 9, 10, 11, 12, 13, 14, 15>> >>

(* a op b on 16-bit values, nibble by nibble through table T *)
Bitwise16(T, a, b) ==
      T[(a \div 4096) + 1][(b \div 4096) + 1] * 4096
    + T[((a \div 256) % 16) + 1][((b \div 256) % 16) + 1] * 256
    + T[((a \div 16) % 16) + 1][((b \div 16) % 16) + 1] * 16
    + T[(a % 16) + 1][(b % 16) + 1]

Xor32(x, y) == << Bitwise16(XorNibble, x[1], y[1]), Bitwise16(XorNibble, x[2], y[2]) >>

And32(x, y) == << Bitwise16(AndNibble, x[1], y[1]), Bitwise16(AndNibble, x[2], y[2]) >>

Not32(x) == << 65535 - x[1], 65535 - x[2] >>

(* wrapping_add *)
Add32(x, y) ==
    LET lo == x[2] + y[2]
    IN << (x[1] + y[1] + (lo \div 65536)) % 65536, lo % 65536 >>

RECURSIVE Pow2(_)
Pow2(n) == IF n = 0 THEN 1 ELSE 2 * Pow2(n - 1)

(* rotate_left(n) for 0 < n < 16 *)
RotlSmall(x, n) ==
    << ((x[1] * Pow2(n)) % 65536) + (x[2] \div Pow2(16 - n)),
       ((x[2] * Pow2(n)) % 65536) + (x[1] \div Pow2(16 - n)) >>

(* rotate_left(n) for 0 < n < 32, n # 16 *)
Rotl32(x, n) ==
    IF n < 16 THEN RotlSmall(x, n) ELSE RotlSmall(<< x[2], x[1] >>, n - 16)

(* The bytes of a word, most significant first, and back *)
WordBytes(x) == << x[1] \div 256, x[1] % 256, x[2] \div 256, x[2] % 256 >>

WordOf(b, i) == << b[i] * 256 + b[i + 1], b[i + 2] * 256 + b[i + 3] >>

Zeros(n) == [i \in 1..n |-> 0]

(* SHA-1 padding: 0x80, zeros up to 56 mod 64, the bit length on 8 bytes *)
Sha1Pad(m) ==
    LET bits == Len(m) * 8
        fill == (119 - (Len(m) % 64)) % 64
    IN m \o <<128>> \o Zeros(fill) \o Zeros(4)
       \o << bits \div 16777216, (bits \div 65536) % 256,
             (bits \div 256) % 256, bits % 256 >>

(* The message schedule: 16 words of the block extended to 80 *)
RECURSIVE Sha1Schedule(_)
Sha1Schedule(w) ==
    IF Len(w) = 80 THEN w
    ELSE LET t == Len(w) + 1
             x == Xor32(Xor32(w[t - 3], w[t - 8]), Xor32(w[t - 14], w[t - 16]))
         IN Sha1Schedule(Append(w, Rotl32(x, 1)))

Sha1F(t, b, c, d) ==
    IF t < 20 THEN Xor32(And32(b, c), And32(Not32(b), d))
    ELSE IF t < 40 THEN Xor32(Xor32(b, c), d)
    ELSE IF t < 60
    THEN Xor32(Xor32(And32(b, c), And32(b, d)), And32(c, d))
    ELSE Xor32(Xor32(b, c), d)

Sha1K(t) ==
    IF t < 20 THEN << 23170, 31129 >>
    ELSE IF t < 40 THEN << 28377, 60321 >>
    ELSE IF t < 60 THEN << 36635, 48348 >>
    ELSE << 51810, 49622 >>

(* Rounds t..79 on the working state s = <<a, b, c, d, e>> *)
RECURSIVE Sha1Rounds(_, _, _)
Sha1Rounds(s, w, t) ==
    IF Len(s) # 5 \/ t = 80 THEN s
    ELSE LET temp == Add32(Add32(Add32(Rotl32(s[1], 5),
                                       Sha1F(t, s[2], s[3], s[4])),
                                 Add32(s[5], Sha1K(t))),
                           w[t + 1])
         IN Sha1Rounds(<< temp, s[1], Rotl32(s[2], 30), s[3], s[4] >>,
                       w, t + 1)

Sha1Init ==
    << << 26437, 8961 >>, << 61389, 43913 >>, << 39098, 56574 >>,
       << 4146, 21622 >>, << 50130, 57840 >> >>

(* The digest state after the blocks of m from byte position p on *)
RECURSIVE Sha1Blocks(_, _, _)
Sha1Blocks(h, m, p) ==
    IF p > Len(m) THEN h
    ELSE LET w == Sha1Schedule([i \in 1..16 |-> WordOf(m, p + 4 * (i - 1))])
             s == Sha1Rounds(h, w, 0)
         IN Sha1Blocks([i \in 1..5 |-> Add32(h[i], s[i])], m, p + 64)

Sha1(m) ==
    LET h == Sha1Blocks(Sha1Init, Sha1Pad(m), 1)
    IN WordBytes(h[1]) \o WordBytes(h[2]) \o WordBytes(h[3])
       \o WordBytes(h[4]) \o WordBytes(h[5])

XorByte(a, b) ==
    XorNibble[(a \div 16) + 1][(b \div 16) + 1] * 16
    + XorNibble[(a % 16) + 1][(b % 16) + 1]

(* Hmac::new(Sha1::new(), key), input(m), result().code() *)
HmacSha1(key, m) ==
    LET k0 == IF Len(key) > 64 THEN Sha1(key) ELSE key
        k == k0 \o Zeros(64 - Len(k0))
        ipad == [i \in 1..64 |-> XorByte(k[i], 54)]
        opad == [i \in 1..64 |-> XorByte(k[i], 92)]
    IN Sha1(opad \o Sha1(ipad \o m))

(* The 64 symbols of a base64 alphabet, in the order of their values *)
Base64UrlSafeAlphabet ==
    << "A", "B", "C", "D", "E", "F", "G", "H", "I", "J", "K", "L", "M",
       "N", "O", "P", "Q", "R", "S", "T", "U", "V", "W", "X", "Y", "Z",
       "a", "b", "c", "d", "e", "f", "g", "h", "i", "j", "k", "l", "m",
       "n", "o", "p", "q", "r", "s", "t", "u", "v", "w", "x", "y", "z",
       "0", "1", "2", "3", "4", "5", "6", "7", "8", "9", "-", "_" >>

Base64StandardAlphabet ==
    << "A", "B", "C", "D", "E", "F", "G", "H", "I", "J", "K", "L", "M",
       "N", "O", "P", "Q", "R", "S", "T", "U", "V", "W", "X", "Y", "Z",
       "a", "b", "c", "d", "e", "f", "g", "h", "i", "j", "k", "l", "m",
       "n", "o", "p", "q", "r", "s", "t", "u", "v", "w", "x", "y", "z",
       "0", "1", "2", "3", "4", "5", "6", "7", "8", "9", "+", "/" >>

Base64Value(c) ==
    (CHOOSE i \in 1..64 : Base64UrlSafeAlphabet[i] = c) - 1

(* The bytes of the 6-bit values v from position i on *)
RECURSIVE Base64DecodeFrom(_, _)
Base64DecodeFrom(v, i) ==
    IF Len(v) - i + 1 >= 4
    THEN LET n == v[i] * 262144 + v[i + 1] * 4096 + v[i + 2] * 64 + v[i + 3]
         IN << n \div 65536, (n \div 256) % 256, n % 256 >>
            \o Base64DecodeFrom(v, i + 4)
    ELSE IF Len(v) - i + 1 = 3
    THEN LET n == v[i] * 4096 + v[i + 1] * 64 + v[i + 2]
         IN << n \div 1024, (n \div 4) % 256 >>
    ELSE IF Len(v) - i + 1 = 2
    THEN << (v[i] * 64 + v[i + 1]) \div 16 >>
    ELSE <<>>

(* base64::decode_config(key, URL_SAFE) for a key that decodes *)
base64_decode_config(key) ==
    LET symbols == SelectSeq(key, LAMBDA c : c # "=")
    IN Base64DecodeFrom([i \in 1..Len(symbols) |-> Base64Value(symbols[i])], 1)

(* The symbols of alphabet A for the bytes b from position i on *)
RECURSIVE Base64EncodeFrom(_, _, _)
Base64EncodeFrom(A, b, i) ==
    IF Len(b) - i + 1 >= 3
    THEN LET n == b[i] * 65536 + b[i + 1] * 256 + b[i + 2]
         IN << A[(n \div 262144) + 1], A[((n \div 4096) % 64) + 1],
               A[((n \div 64) % 64) + 1], A[(n % 64) + 1] >>
            \o Base64EncodeFrom(A, b, i + 3)
    ELSE IF Len(b) - i + 1 = 2
    THEN LET n == (b[i] * 256 + b[i + 1]) * 4
         IN << A[(n \div 4096) + 1], A[((n \div 64) % 64) + 1],
               A[(n % 64) + 1], "=" >>
    ELSE IF Len(b) - i + 1 = 1
    THEN LET n == b[i] * 16
         IN << A[(n \div 64) + 1], A[(n % 64) + 1], "=", "=" >>
    ELSE <<>>

(* Variant of base64_encode_config: the standard alphabet ("+", "/"). *)
base64_encode_config_Standard(bytes) ==
    Base64EncodeFrom(Base64StandardAlphabet, bytes, 1)

(* base64::encode_config(bytes, URL_SAFE) *)
base64_encode_config(bytes) ==
    Base64EncodeFrom(Base64UrlSafeAlphabet, bytes, 1)

(* sign_url on the bytes of path_and_query, computed bit by bit *)
sign_url_bytes(path_and_query, private_key) ==
    IF base64_decode_ok(private_key)
    THEN Ok(base64_encode_config(
                HmacSha1(base64_decode_config(private_key), path_and_query)))
    ELSE Err(<< [kind |-> "Base64Decode"] >>)

----------------------------------------------------------------------------
(* request.rs: execute_requests *)

(* id_iter.zip(responses.iter()).map(TaggedResponse::new).collect() *)
ZipTag(reqs, resps) ==
    [i \in 1..Min(Len(reqs), Len(resps)) |->
        TaggedResponse_new(reqs[i].id, resps[i])]

(* Variant of NextChunk: chunks of rate_limit + 1 items. *)
NextChunk_OneMore(reqs, done, n) ==
    [j \in 1..Min(n + 1, Len(reqs) - done) |->
        [url |-> reqs[done + j].url, src |-> done + j]]

(* itertools chunks(rate_limit): the next chunk of url_iter, each URL with *)
(* the input position it was cloned from.                                  *)
NextChunk(reqs, done, n) ==
    [j \in 1..Min(n, Len(reqs) - done) |->
        [url |-> reqs[done + j].url, src |-> done + j]]

(* Buffered::poll, first loop: pull futures from the stream while the      *)
(* queue holds fewer than `max` of them.                                   *)
FillCount(queueLen, pend, max) ==
    IF max > queueLen THEN Min(max - queueLen, Len(pend)) ELSE 0

(* Variant of Yieldable: results are yielded as they resolve              *)
(* (buffer_unordered instead of buffered).                                 *)
Yieldable_Unordered(queued, idx) ==
    IF queued = {} THEN <<>> ELSE << CHOOSE q \in queued : TRUE >>

(* FuturesOrdered::poll: the results it can yield in order, starting at    *)
(* next_outgoing_index.                                                    *)
RECURSIVE Yieldable(_, _)
Yieldable(queued, idx) ==
    IF \E q \in queued : q.index = idx
    THEN LET q == CHOOSE q \in queued : q.index = idx
         IN <<q>> \o Yieldable(queued \ {q}, idx + 1)
    ELSE <<>>

(* Variant of ChunkDone: the chunk counts as done at its first result. *)
ChunkDone_Early(flying, queued, pend) == queued = {}

(* for_each has drained the stream: no future in the queue and none left  *)
(* to pull, so core.run(work) returns Ok.                                  *)
ChunkDone(flying, queued, pend) ==
    flying = {} /\ queued = {} /\ pend = <<>>

DispatchStart ==
    /\ consumed = 0
    /\ pending = <<>>
    /\ in_progress = {}
    /\ queued_results = {}
    /\ next_incoming_index = 0
    /\ next_outgoing_index = 0
    /\ responses = <<>>
    /\ waits = 0
    /\ result = None
    /\ sent = <<>>
    /\ delivered = [i \in 1..Len(requests) |-> NoBody]
    /\ chunks_log = <<>>
    /\ completed = <<>>
    /\ failed = {}

Init ==
    /\ pc = "chunk_loop"
    /\ requests \in SeqsUpTo([id : Ids, url : Urls], MaxUrls)
    /\ rate_limit \in 1..MaxRate
    /\ server_bodies = { <<49>>, <<91>>, <<255>> }
    /\ DispatchStart
    /\ QueryIdle /\ now = None
    /\ ShiftIdle
    /\ RunIdle
    /\ PureIdle

(* for chunk in &url_iter.chunks(rate_limit): the next chunk is taken, its *)
(* stream built, and core.run(work) polls it for the first time, which     *)
(* issues the requests buffered() admits.                                  *)
StartChunk ==
    /\ pc = "chunk_loop"
    /\ consumed < Len(requests)
    /\ LET chunk == NextChunk(requests, consumed, rate_limit)
           k == FillCount(0, chunk, rate_limit)
       IN /\ chunks_log' = Append(chunks_log, chunk)
          /\ consumed' = consumed + Len(chunk)
          /\ in_progress' = { [index |-> j - 1, url |-> chunk[j].url,
                               src |-> chunk[j].src] : j \in 1..k }
          /\ pending' = Drop(chunk, k)
          /\ next_incoming_index' = k
          /\ sent' = sent \o Take(chunk, k)
    /\ queued_results' = {}
    /\ next_outgoing_index' = 0
    /\ pc' = "core_run"
    /\ UNCHANGED <<requests, rate_limit, responses, waits, result, delivered,
                   completed, failed, server_bodies, qvars, svars, rvars, xvars>>

(* A request in flight resolves with body b. The task is polled:           *)
(* FuturesOrdered queues the result and yields what is next in order,      *)
(* for_each pushes each yielded body (from_utf8(..).unwrap() panics on a   *)
(* body that is not UTF-8), buffered() refills, and core.run returns once  *)
(* the stream is exhausted.                                                *)
Complete(r, b) ==
    /\ pc = "core_run"
    /\ r \in in_progress
    /\ delivered' = [delivered EXCEPT ![r.src] = b]
    /\ completed' = Append(completed, r.src)
    /\ LET queued == queued_results \cup {[index |-> r.index, body |-> b]}
           out == Yieldable(queued, next_outgoing_index)
           bodies == [i \in 1..Len(out) |-> out[i].body]
           left == queued \ {out[i] : i \in 1..Len(out)}
           flying == in_progress \ {r}
           k == FillCount(Cardinality(flying) + Cardinality(left), pending,
                          rate_limit)
       IN IF \E i \in 1..Len(bodies) : ~from_utf8_ok(bodies[i])
          THEN /\ pc' = "panic_from_utf8"
               /\ in_progress' = {}
               /\ queued_results' = {}
               /\ UNCHANGED <<pending, next_incoming_index, next_outgoing_index,
                              responses, sent>>
          ELSE /\ responses' = responses \o bodies
               /\ queued_results' = left
               /\ next_outgoing_index' = next_outgoing_index + Len(out)
               /\ in_progress' = flying \cup
                     { [index |-> next_incoming_index + j - 1,
                        url |-> pending[j].url, src |-> pending[j].src]
                       : j \in 1..k }
               /\ pending' = Drop(pending, k)
               /\ next_incoming_index' = next_incoming_index + k
               /\ sent' = sent \o Take(pending, k)
               /\ pc' = IF ChunkDone(in_progress', queued_results', pending')
                        THEN "ratelimit_wait" ELSE "core_run"
    /\ UNCHANGED <<requests, rate_limit, consumed, waits, result, chunks_log,
                   failed, server_bodies, qvars, svars, rvars, xvars>>

(* Variant of Fail: the failed request is issued again, once. *)
Fail_Retried(r) ==
    /\ pc = "core_run"
    /\ r \in in_progress
    /\ r.src \notin failed
    /\ failed' = failed \cup {r.src}
    /\ sent' = Append(sent, [url |-> r.url, src |-> r.src])
    /\ UNCHANGED <<pc, requests, rate_limit, consumed, pending, in_progress,
                   queued_results, next_incoming_index, next_outgoing_index,
                   responses, waits, result, delivered, chunks_log, completed,
                   server_bodies, qvars, svars, rvars, xvars>>

(* Variant of Fail: the failed request is skipped and the chunk goes on. *)
Fail_Swallowed(r) ==
    /\ pc = "core_run"
    /\ r \in in_progress
    /\ in_progress' = in_progress \ {r}
    /\ failed' = failed \cup {r.src}
    /\ pc' = IF ChunkDone(in_progress', queued_results, pending)
             THEN "ratelimit_wait" ELSE "core_run"
    /\ UNCHANGED <<requests, rate_limit, consumed, pending, queued_results,
                   next_incoming_index, next_outgoing_index, responses, waits,
                   result, sent, delivered, chunks_log, completed,
                   server_bodies, qvars, svars, rvars, xvars>>

(* A request in flight fails at the transport level: FuturesOrdered::poll  *)
(* returns the error at once, core.run(work)? returns it, and the function *)
(* drops the stream and the responses collected so far.                    *)
Fail(r) ==
    /\ pc = "core_run"
    /\ r \in in_progress
    /\ in_progress' = {}
    /\ queued_results' = {}
    /\ pending' = <<>>
    /\ responses' = <<>>
    /\ result' = [tag |-> "Err"]
    /\ failed' = failed \cup {r.src}
    /\ pc' = "returned"
    /\ UNCHANGED <<requests, rate_limit, consumed, next_incoming_index,
                   next_outgoing_index, waits, sent, delivered, chunks_log,
                   completed, server_bodies, qvars, svars, rvars, xvars>>

(* Variant of RatelimitWait: the loop goes on without waiting. *)
RatelimitWait_Skipped ==
    /\ pc = "ratelimit_wait"
    /\ pc' = "chunk_loop"
    /\ UNCHANGED <<requests, rate_limit, consumed, pending, in_progress,
                   queued_results, next_incoming_index, next_outgoing_index,
                   responses, waits, result, sent, delivered, chunks_log,
                   completed, failed, server_bodies, qvars, svars, rvars, xvars>>

(* ratelimit.wait() after core.run(work) returned Ok *)
RatelimitWait ==
    /\ pc = "ratelimit_wait"
    /\ waits' = waits + 1
    /\ pc' = "chunk_loop"
    /\ UNCHANGED <<requests, rate_limit, consumed, pending, in_progress,
                   queued_results, next_incoming_index, next_outgoing_index,
                   responses, result, sent, delivered, chunks_log,
                   completed, failed, server_bodies, qvars, svars, rvars, xvars>>

(* The chunk iterator is exhausted: zip the ids back and return Ok. *)
Finish ==
    /\ pc = "chunk_loop"
    /\ consumed >= Len(requests)
    /\ result' = [tag |-> "Ok", value |-> ZipTag(requests, responses)]
    /\ pc' = "returned"
    /\ UNCHANGED <<requests, rate_limit, consumed, pending, in_progress,
                   queued_results, next_incoming_index, next_outgoing_index,
                   responses, waits, sent, delivered, chunks_log,
                   completed, failed, server_bodies, qvars, svars, rvars, xvars>>

CompleteSome == \E r \in in_progress, b \in server_bodies : Complete(r, b)

FailSome == \E r \in in_progress : Fail(r)

Next ==
    \/ StartChunk
    \/ CompleteSome
    \/ FailSome
    \/ RatelimitWait
    \/ Finish

Spec == Init /\ [][Next]_vars

----------------------------------------------------------------------------
(* execute_requests on longer inputs, against a service that always        *)
(* answers the same body: the chunking of the input.                       *)

MaxChunkUrls == 5
MaxChunkRate == 3

InitChunks ==
    /\ pc = "chunk_loop"
    /\ requests \in SeqsUpTo([id : {"a"}, url : Urls], MaxChunkUrls)
    /\ rate_limit \in 1..MaxChunkRate
    /\ server_bodies = { <<49>> }
    /\ DispatchStart
    /\ QueryIdle /\ now = None
    /\ ShiftIdle
    /\ RunIdle
    /\ PureIdle

SpecChunks == InitChunks /\ [][Next]_vars

----------------------------------------------------------------------------
(* DepartureTime::new(timestamp).shift(now) on its own *)

MaxWeeks == 2
MaxOffset == 2

(* 1534284000, 1537308000, 1565820000 and 1536991111 are the values of     *)
(* test_update_departure_time and test_csv_record_to_query.                *)
ShiftDepartures ==
    { k * WEEK_IN_SECONDS + o : k \in 0..MaxWeeks, o \in 0..MaxOffset }
    \cup { 1534284000, 1537308000, 1565820000 }

ShiftNows ==
    { [secs |-> k * WEEK_IN_SECONDS + o, frac |-> f] :
        k \in 0..(MaxWeeks + 1), o \in 0..MaxOffset, f \in 0..(SubSecond - 1) }
    \cup { [secs |-> 1536991111, frac |-> 0] }

InitShift ==
    /\ pc = "shift_call"
    /\ dep \in { DepartureTime_new(I64Of(ts)).value : ts \in ShiftDepartures }
    /\ now \in ShiftNows
    /\ shifted = None
    /\ QueryIdle
    /\ RunIdle
    /\ PureIdle
    /\ requests = <<>> /\ rate_limit = 0 /\ server_bodies = {}
    /\ DispatchStart

Shift ==
    /\ pc = "shift_call"
    /\ shifted' = DepartureTime_shift(dep, now)
    /\ pc' = "shift_done"
    /\ UNCHANGED <<dep, dvars, qvars, rvars, xvars>>

NextShift == Shift

SpecShift == InitShift /\ [][NextShift]_vars

----------------------------------------------------------------------------
(* Query::from_csv_record(record, now) and the rendering of its result *)

T_37_820189 == <<"-", "3", "7", ".", "8", "2", "0", "1", "8", "9">>
T_145_149954 == <<"1", "4", "5", ".", "1", "4", "9", "9", "5", "4">>
T_37_819681 == <<"-", "3", "7", ".", "8", "1", "9", "6", "8", "1">>
T_144_952302 == <<"1", "4", "4", ".", "9", "5", "2", "3", "0", "2">>
T_1534284000 == <<"1", "5", "3", "4", "2", "8", "4", "0", "0", "0">>
T_1565820000 == <<"1", "5", "6", "5", "8", "2", "0", "0", "0", "0">>
T_99999999999999 == [i \in 1..14 |-> "9"]

SampleRecords ==
    [ id : { <<"1">> },
      origin_lat : { T_37_820189, <<"9", "1">>, <<"x">>, <<"NaN">> },
      origin_lon : { T_145_149954, <<"1", "8", "1">> },
      destination_lat : { T_37_819681, <<"-", "9", "0", ".", "5">> },
      destination_lon : { T_144_952302, <<"a", "b", "c">> },
      departure_time : { T_1534284000, T_1565820000, <<"1", ".", "5">>,
                         T_99999999999999 },
      mode : { <<"driving">>, <<"walking">>, <<"bicycling">>, <<"transit">>,
               <<"flying">> },
      avoidances : { Absent, Some(<<>>), Some(<<"tolls">>),
                     Some(<<"highways", "|", "tolls">>),
                     Some(<<"unknown", "|", "tolls">>) },
      traffic_model : { Absent, Some(<<"best_guess">>), Some(<<"pessimistic">>),
                        Some(<<"fastest">>) } ]

QueryNows == { [secs |-> 1536991111, frac |-> f] : f \in 0..(SubSecond - 1) }

InitQuery ==
    /\ pc = "from_csv_record"
    /\ record \in SampleRecords
    /\ now \in QueryNows
    /\ outcome = None
    /\ rendered = None
    /\ ShiftIdle
    /\ RunIdle
    /\ PureIdle
    /\ requests = <<>> /\ rate_limit = 0 /\ server_bodies = {}
    /\ DispatchStart

FromCsvRecord ==
    /\ pc = "from_csv_record"
    /\ outcome' = Query_from_csv_record(record, now)
    /\ pc' = IF outcome'.tag = "Ok" THEN "to_string" ELSE "rejected"
    /\ UNCHANGED <<record, now, rendered, dvars, svars, rvars, xvars>>

(* query.to_string(): the avoidances set iterates in some order *)
Render ==
    /\ pc = "to_string"
    /\ \E order \in IterOrders(IF outcome.value.avoidances.some
                                THEN outcome.value.avoidances.v ELSE {}) :
          rendered' = Query_fmt(outcome.value, order)
    /\ pc' = "rendered"
    /\ UNCHANGED <<record, now, outcome, dvars, svars, rvars, xvars>>

NextQuery == FromCsvRecord \/ Render

SpecQuery == InitQuery /\ [][NextQuery]_vars

----------------------------------------------------------------------------
(* main.rs: run, from the loaded input to the exit of the process *)

RATE_LIMIT == 50

MaxRows == 2

RowWalking ==
    [ok |-> TRUE,
     record |-> [id |-> <<"1">>, origin_lat |-> T_37_820189,
                 origin_lon |-> T_145_149954, destination_lat |-> T_37_819681,
                 destination_lon |-> T_144_952302,
                 departure_time |-> T_1565820000, mode |-> <<"walking">>,
                 avoidances |-> Absent, traffic_model |-> Absent]]

RowDriving ==
    [ok |-> TRUE,
     record |-> [id |-> <<"1">>, origin_lat |-> T_37_820189,
                 origin_lon |-> T_145_149954, destination_lat |-> T_37_819681,
                 destination_lon |-> T_144_952302,
                 departure_time |-> T_1534284000, mode |-> <<"driving">>,
                 avoidances |-> Some(<<"highways", "|", "tolls">>),
                 traffic_model |-> Some(<<"best_guess">>)]]

RowNoTrafficModel ==
    [ok |-> TRUE,
     record |-> [RowDriving.record EXCEPT !.id = <<"2">>,
                                          !.traffic_model = Absent]]

RowMissingField == [ok |-> FALSE]

SampleRows == { RowWalking, RowDriving, RowNoTrafficModel, RowMissingField }

T_private_key ==
    << "v", "N", "I", "X", "E", "0", "x", "s", "c", "r", "m", "j", "l", "y",
       "V", "-", "1", "2", "N", "j", "_", "B", "v", "U", "P", "a", "w", "=" >>

SampleCredentials ==
    { [kind |-> "Normal", api_key |-> <<"test_key">>],
      [kind |-> "Premium", client_id |-> <<"clientID">>,
       private_key |-> T_private_key, channel |-> Absent],
      [kind |-> "Premium", client_id |-> <<"clientID">>,
       private_key |-> T_private_key, channel |-> Some(<<"CHANNEL">>)],
      [kind |-> "Premium", client_id |-> <<"clientID">>,
       private_key |-> <<"!">>, channel |-> Absent] }

InitRun ==
    /\ pc = "load"
    /\ rows \in SeqsUpTo(SampleRows, MaxRows)
    /\ credentials \in SampleCredentials
    /\ now \in QueryNows
    /\ queries = None
    /\ exit_status = None
    /\ stderr = None
    /\ output = None
    /\ requests = <<>> /\ rate_limit = 0
    /\ server_bodies = { <<91, 49, 93>>, <<255>> }
    /\ DispatchStart
    /\ QueryIdle
    /\ ShiftIdle
    /\ PureIdle

(* if let Err(err) = run(&args): the error and its causes are printed and  *)
(* the process exits with status 1.                                        *)
ExitWithError(chain) ==
    /\ stderr' = chain
    /\ exit_status' = 1
    /\ pc' = "exit"

(* input::load: the input is read, or the path cannot be opened or read *)
Load ==
    /\ pc = "load"
    /\ \/ /\ pc' = "read_csv"
          /\ UNCHANGED <<exit_status, stderr>>
       \/ ExitWithError(<< [kind |-> "Input"], [kind |-> "Io"] >>)
    /\ UNCHANGED <<rows, credentials, queries, output, dvars, qvars, svars, xvars>>

(* input::read_csv(&input_str, &current_time)? *)
ReadCsv ==
    /\ pc = "read_csv"
    /\ LET r == read_csv(rows, now)
       IN IF r.tag = "Err"
          THEN /\ ExitWithError(r.error)
               /\ UNCHANGED queries
          ELSE /\ queries' = r.value
               /\ pc' = "build_urls"
               /\ UNCHANGED <<exit_status, stderr>>
    /\ UNCHANGED <<rows, credentials, output, dvars, qvars, svars, xvars>>

AvoidancesOf(q) == IF q.avoidances.some THEN q.avoidances.v ELSE {}

(* queries.into_iter().map(|q| TaggedUrl::new(&q, ..).unwrap()).collect(), *)
(* then execute_requests(&requests, 50) is entered.                        *)
BuildUrls ==
    /\ pc = "build_urls"
    /\ \E orders \in [1..Len(queries) ->
                        UNION { IterOrders(AvoidancesOf(queries[i])) :
                                  i \in 1..Len(queries) }] :
          /\ \A i \in 1..Len(queries) :
                orders[i] \in IterOrders(AvoidancesOf(queries[i]))
          /\ LET built == [i \in 1..Len(queries) |->
                             TaggedUrl_new(queries[i], orders[i], credentials)]
             IN IF \E i \in 1..Len(built) : built[i].tag = "Err"
                THEN /\ pc' = "panic_from_url"
                     /\ UNCHANGED <<requests, rate_limit, delivered>>
                ELSE /\ requests' = [i \in 1..Len(built) |-> built[i].value]
                     /\ rate_limit' = RATE_LIMIT
                     /\ delivered' = [i \in 1..Len(built) |-> NoBody]
                     /\ pc' = "chunk_loop"
    /\ UNCHANGED <<consumed, pending, in_progress, queued_results,
                   next_incoming_index, next_outgoing_index, responses, waits,
                   result, sent, chunks_log, completed, failed, server_bodies,
                   qvars, svars, rvars, xvars>>

(* execute_requests(..)? returned Err *)
DispatchFailed ==
    /\ pc = "returned"
    /\ result.tag = "Err"
    /\ ExitWithError(<< [kind |-> "Transport"] >>)
    /\ UNCHANGED <<rows, credentials, queries, output, dvars, qvars, svars, xvars>>

(* serde_json::to_string(&output)? and output::export(..)?; the document   *)
(* is kept as the list of tagged responses it encodes.                     *)
Export ==
    /\ pc = "returned"
    /\ result.tag = "Ok"
    /\ \/ /\ output' = result.value
          /\ exit_status' = 0
          /\ pc' = "exit"
          /\ UNCHANGED stderr
       \/ /\ ExitWithError(<< [kind |-> "Io"] >>)
          /\ UNCHANGED output
    /\ UNCHANGED <<rows, credentials, queries, dvars, qvars, svars, xvars>>

NextRun ==
    \/ Load
    \/ ReadCsv
    \/ BuildUrls
    \/ StartChunk
    \/ CompleteSome
    \/ FailSome
    \/ RatelimitWait
    \/ Finish
    \/ DispatchFailed
    \/ Export

SpecRun == InitRun /\ [][NextRun]_vars

----------------------------------------------------------------------------
(* query.rs: Avoidances as HashSet values. A HashSet iterates in an order  *)
(* fixed by the keys of its own RandomState, its members and the way it    *)
(* was filled: an instance is [members, order], equality (PartialEq)       *)
(* compares the members only.                                              *)

MaxAvoid == 3

AvoidanceValues == { "Tolls", "Highways", "Ferries", "Indoors" }

FourAvoidances == << "Highways", "Ferries", "Indoors", "Tolls" >>

Reverse(s) == [i \in 1..Len(s) |-> s[Len(s) + 1 - i]]

(* The HashSet instances that collecting `inp` may give *)
HashSets(inp) ==
    { [members |-> Avoidances_new(inp), order |-> o] :
        o \in IterOrders(Avoidances_new(inp)) }

(* A Query that holds the avoidances `a` *)
QueryWith(a) ==
    [ Query_from_csv_record(RowDriving.record,
                            [secs |-> 1536991111, frac |-> 0]).value
      EXCEPT !.avoidances = Some(a.members) ]

InitAvoid ==
    /\ pc = "avoidances_new"
    /\ inp_a \in SeqsUpTo(AvoidanceValues, MaxAvoid) \cup { FourAvoidances }
    /\ inp_b \in { inp_a, Reverse(inp_a) }
    /\ avoid_a = None /\ avoid_b = None
    /\ text_a = None /\ reparsed = None
    /\ query_a = None /\ query_a2 = None /\ query_b = None
    /\ CoordIdle
    /\ SignIdle
    /\ requests = <<>> /\ rate_limit = 0 /\ server_bodies = {}
    /\ DispatchStart
    /\ QueryIdle /\ now = None
    /\ ShiftIdle
    /\ RunIdle

(* Avoidances::new(&inp_a) and Avoidances::new(&inp_b) *)
AvoidancesNew ==
    /\ pc = "avoidances_new"
    /\ avoid_a' \in HashSets(inp_a)
    /\ avoid_b' \in HashSets(inp_b)
    /\ pc' = "avoidances_fmt"
    /\ UNCHANGED <<inp_a, inp_b, text_a, reparsed, query_a, query_a2, query_b,
                   cvars, gvars, dvars, qvars, svars, rvars>>

(* avoid_a.to_string() *)
AvoidancesFmt ==
    /\ pc = "avoidances_fmt"
    /\ text_a' = Avoidances_fmt(avoid_a.order)
    /\ pc' = "avoidances_from_str"
    /\ UNCHANGED <<inp_a, inp_b, avoid_a, avoid_b, reparsed, query_a, query_a2,
                   query_b, cvars, gvars, dvars, qvars, svars, rvars>>

(* text_a.parse::<Avoidances>() *)
AvoidancesFromStr ==
    /\ pc = "avoidances_from_str"
    /\ reparsed' = Avoidances_from_str(text_a)
    /\ pc' = "query_fmt"
    /\ UNCHANGED <<inp_a, inp_b, avoid_a, avoid_b, text_a, query_a, query_a2,
                   query_b, cvars, gvars, dvars, qvars, svars, rvars>>

(* to_string() of the Query holding avoid_a, twice, and of the Query that  *)
(* holds avoid_b and is equal in every other field.                        *)
QueryFmt ==
    /\ pc = "query_fmt"
    /\ query_a' = Query_fmt(QueryWith(avoid_a), avoid_a.order)
    /\ query_a2' = Query_fmt(QueryWith(avoid_a), avoid_a.order)
    /\ query_b' = Query_fmt(QueryWith(avoid_b), avoid_b.order)
    /\ pc' = "avoidances_done"
    /\ UNCHANGED <<inp_a, inp_b, avoid_a, avoid_b, text_a, reparsed,
                   cvars, gvars, dvars, qvars, svars, rvars>>

NextAvoid ==
    \/ AvoidancesNew
    \/ AvoidancesFmt
    \/ AvoidancesFromStr
    \/ QueryFmt

SpecAvoid == InitAvoid /\ [][NextAvoid]_vars

----------------------------------------------------------------------------
(* query.rs: Coord::new on f64 arguments *)

(* Latitudes around the bounds, in millionths of a degree, and NaN *)
LatSamples ==
    { Num(m) : m \in { -91 * Micro, -90 * Micro - 1, -90 * Micro, -37820189,
                       0, 90 * Micro, 90 * Micro + 1, 91 * Micro } }
    \cup { NaN }

(* Longitudes around the bounds, in millionths of a degree, and NaN *)
LonSamples ==
    { Num(m) : m \in { -181 * Micro, -180 * Micro - 1, -180 * Micro,
                       -91 * Micro, 0, 145149954, 180 * Micro,
                       180 * Micro + 1, 181 * Micro } }
    \cup { NaN }

InitCoord ==
    /\ pc = "coord_new"
    /\ arg_lat \in LatSamples
    /\ arg_lon \in LonSamples
    /\ coord = None
    /\ AvoidIdle
    /\ SignIdle
    /\ requests = <<>> /\ rate_limit = 0 /\ server_bodies = {}
    /\ DispatchStart
    /\ QueryIdle /\ now = None
    /\ ShiftIdle
    /\ RunIdle

(* Coord::new(arg_lat, arg_lon) *)
CoordNew ==
    /\ pc = "coord_new"
    /\ coord' = Coord_new(arg_lat, arg_lon)
    /\ pc' = "coord_done"
    /\ UNCHANGED <<arg_lat, arg_lon, avars, gvars, dvars, qvars, svars, rvars>>

NextCoord == CoordNew

SpecCoord == InitCoord /\ [][NextCoord]_vars

----------------------------------------------------------------------------
(* url.rs: sign_url on bytes *)

MaxTrim == 15

(* "/maps/api/geocode/json?address=New+York&client=clientID" in UTF-8 *)
T_path_and_query ==
    << 47, 109, 97, 112, 115, 47, 97, 112, 105, 47, 103, 101, 111, 99,
       111, 100, 101, 47, 106, 115, 111, 110, 63, 97, 100, 100, 114, 101,
       115, 115, 61, 78, 101, 119, 43, 89, 111, 114, 107, 38, 99, 108,
       105, 101, 110, 116, 61, 99, 108, 105, 101, 110, 116, 73, 68 >>

(* "chaRF2hTJKOScPr-RQCEhZbSzIE=" *)
T_signature ==
    << "c", "h", "a", "R", "F", "2", "h", "T", "J", "K", "O", "S", "c",
       "P", "r", "-", "R", "Q", "C", "E", "h", "Z", "b", "S", "z", "I",
       "E", "=" >>

(* The test text and the texts it starts with, down to MaxTrim bytes less *)
SignTexts ==
    { SubSeq(T_path_and_query, 1, Len(T_path_and_query) - k) : k \in 0..MaxTrim }

(* Keys of 20, 3 and 1 bytes, and a key that is not base64 *)
SignKeys ==
    { T_private_key, <<"A", "B", "-", "_">>, <<"_", "w", "=", "=">>, <<"!">> }

InitSign ==
    /\ pc = "sign_url"
    /\ arg_path_and_query \in SignTexts
    /\ arg_private_key \in SignKeys
    /\ signed = None
    /\ AvoidIdle
    /\ CoordIdle
    /\ requests = <<>> /\ rate_limit = 0 /\ server_bodies = {}
    /\ DispatchStart
    /\ QueryIdle /\ now = None
    /\ ShiftIdle
    /\ RunIdle

(* sign_url(arg_path_and_query, arg_private_key) *)
SignUrl ==
    /\ pc = "sign_url"
    /\ signed' = sign_url_bytes(arg_path_and_query, arg_private_key)
    /\ pc' = "sign_url_done"
    /\ UNCHANGED <<arg_path_and_query, arg_private_key, avars, cvars, dvars,
                   qvars, svars, rvars>>

NextSign == SignUrl

SpecSign == InitSign /\ [][NextSign]_vars

----------------------------------------------------------------------------
(* Properties of execute_requests *)

Range(s) == { s[i] : i \in 1..Len(s) }

IndexOf(s, x) == CHOOSE i \in 1..Len(s) : s[i] = x

(* The chunk (its number in chunks_log) that input position i was put in *)
ChunkOf(i) ==
    CHOOSE k \in 1..Len(chunks_log) :
        \E j \in 1..Len(chunks_log[k]) : chunks_log[k][j].src = i

Issued == { sent[k].src : k \in 1..Len(sent) }

Resolved == Range(completed) \cup failed

CeilDiv(a, b) == (a + b - 1) \div b

ChunkSizes == [k \in 1..Len(chunks_log) |-> Len(chunks_log[k])]

(* C1: when execute_requests returns Ok, the output has one entry per     *)
(* input, and entry i carries the identifier of input i and the body the   *)
(* transport delivered to the request issued for input i's URL, whatever   *)
(* order the requests of a chunk resolved in.                              *)
C1_OutputMatchesInput ==
    result.tag = "Ok" =>
        /\ Len(result.value) = Len(requests)
        /\ Len(responses) = Len(requests)
        /\ \A i \in 1..Len(requests) :
              /\ result.value[i].id = requests[i].id
              /\ delivered[i] \in server_bodies
              /\ responses[i] = delivered[i]
              /\ result.value[i] = TaggedResponse_new(requests[i].id, delivered[i])
              /\ \E k \in 1..Len(sent) :
                    sent[k] = [url |-> requests[i].url, src |-> i]

(* C1 witness: a successful run in which two inputs with the same          *)
(* identifier sit in one chunk, got different bodies, and the later one    *)
(* resolved first.                                                         *)
C1_Witness ==
    /\ result.tag = "Ok"
    /\ \E i, j \in 1..Len(requests) :
          /\ i < j
          /\ requests[i].id = requests[j].id
          /\ ChunkOf(i) = ChunkOf(j)
          /\ delivered[i] # delivered[j]
          /\ IndexOf(completed, j) < IndexOf(completed, i)

(* C2: once a request has failed, execute_requests has returned Err with   *)
(* no results, nothing collected is kept, and no further request is        *)
(* issued.                                                                 *)
C2_FailureAbortsBatch ==
    /\ [](failed # {} =>
            /\ result = [tag |-> "Err"]
            /\ responses = <<>>
            /\ in_progress = {})
    /\ [][failed # {} => sent' = sent]_vars

(* C2 witness: a request failed after bodies had been collected and while  *)
(* part of the input had not been handed out yet.                          *)
C2_Witness ==
    /\ failed # {}
    /\ completed # <<>>
    /\ consumed < Len(requests)
    /\ result = [tag |-> "Err"]

(* C4: the requests in flight all belong to one chunk and number at most   *)
(* rate_limit, and a request of a later chunk has been issued only if      *)
(* every request of the earlier chunks has resolved.                       *)
C4_OneChunkInFlight ==
    /\ Cardinality(in_progress) <= rate_limit
    /\ \A r1, r2 \in in_progress : ChunkOf(r1.src) = ChunkOf(r2.src)
    /\ \A i, j \in Issued :
          ChunkOf(i) < ChunkOf(j) => i \in Resolved
    /\ sent # <<>> =>
          \A k \in 1..(ChunkOf(sent[Len(sent)].src) - 1) :
              \A j \in 1..Len(chunks_log[k]) : chunks_log[k][j].src \in Resolved

(* C4 witness: the second chunk is in flight after a first chunk of two    *)
(* requests, which were in flight together and resolved out of order.      *)
C4_Witness ==
    /\ Len(chunks_log) = 2
    /\ Len(chunks_log[1]) = 2
    /\ in_progress # {}
    /\ completed = <<2, 1>>

(* C5: the chunks handed out are consecutive pieces of the input in input  *)
(* order, each of rate_limit items except the last, which has between 1    *)
(* and rate_limit; once the whole input is handed out there are            *)
(* ceil(L / rate_limit) of them; 5 URLs at rate limit 2 give 2, 2, 1.      *)
C5_Chunking ==
    LET all == Concat(chunks_log) IN
    /\ \A k \in 1..Len(chunks_log) :
          /\ Len(chunks_log[k]) \in 1..rate_limit
          /\ k < Len(chunks_log) => Len(chunks_log[k]) = rate_limit
    /\ Len(all) = consumed
    /\ \A i \in 1..Len(all) :
          all[i] = [url |-> requests[i].url, src |-> i]
    /\ result.tag = "Ok" =>
          /\ Len(all) = Len(requests)
          /\ Len(chunks_log) = CeilDiv(Len(requests), rate_limit)
    /\ (result.tag = "Ok" /\ Len(requests) = 5 /\ rate_limit = 2) =>
          ChunkSizes = <<2, 2, 1>>

(* C5 witness: 5 URLs at rate limit 2 were dispatched in 3 chunks. *)
C5_Witness ==
    /\ result.tag = "Ok"
    /\ Len(requests) = 5
    /\ rate_limit = 2
    /\ ChunkSizes = <<2, 2, 1>>

----------------------------------------------------------------------------
(* Properties of DepartureTime::shift *)

WeekEarlier(t) == [secs |-> t.secs - WEEK_IN_SECONDS, frac |-> t.frac]

(* C6: for a departure time strictly before `now`, shift returns the       *)
(* earliest instant that is not before `now` and lies a whole number of    *)
(* weeks after the departure time; now = 1536991111 and 1534284000 give    *)
(* 1537308000.                                                             *)
C6_ShiftEarliestNotBeforeNow ==
    (pc = "shift_done" /\ NaiveLt(dep, now)) =>
        /\ ~NaiveLt(shifted, now)
        /\ NaiveLt(WeekEarlier(shifted), now)
        /\ shifted.frac = dep.frac
        /\ shifted.secs >= dep.secs
        /\ (shifted.secs - dep.secs) % WEEK_IN_SECONDS = 0
        /\ (now = [secs |-> 1536991111, frac |-> 0] /\ dep.secs = 1534284000)
              => shifted.secs = 1537308000

(* C7: a departure time that is not before `now` is returned as it is,     *)
(* and shift never changes the value it is called on.                      *)
C7_ShiftKeepsLaterTime ==
    /\ []((pc = "shift_done" /\ ~NaiveLt(dep, now)) => shifted = dep)
    /\ [][dep' = dep]_vars

(* C7 witness: 1565820000 shifted at now = 1536991111 stays 1565820000. *)
C7_Witness ==
    /\ pc = "shift_done"
    /\ now = [secs |-> 1536991111, frac |-> 0]
    /\ dep = [secs |-> 1565820000, frac |-> 0]
    /\ shifted = dep

----------------------------------------------------------------------------
(* Properties of Query *)

(* Every field of the record is valid taken by itself *)
FieldsValid(r) ==
    /\ to_f64(r.origin_lat).tag = "Ok"
    /\ to_f64(r.origin_lon).tag = "Ok"
    /\ to_f64(r.destination_lat).tag = "Ok"
    /\ to_f64(r.destination_lon).tag = "Ok"
    /\ Coord_new(to_f64(r.origin_lat).value, to_f64(r.origin_lon).value).tag = "Ok"
    /\ Coord_new(to_f64(r.destination_lat).value,
                 to_f64(r.destination_lon).value).tag = "Ok"
    /\ to_i64(r.departure_time).tag = "Ok"
    /\ DepartureTime_new(to_i64(r.departure_time).value).tag = "Ok"
    /\ Mode_from_str(r.mode).tag = "Ok"
    /\ r.avoidances.some => Avoidances_from_str(r.avoidances.v).tag = "Ok"
    /\ r.traffic_model.some => TrafficModel_from_str(r.traffic_model.v).tag = "Ok"

(* C8: a Query that from_csv_record returns has a traffic model whenever   *)
(* its mode is driving; a record valid in every field without a traffic    *)
(* model fails with MissingTrafficModel when its mode is driving and       *)
(* succeeds when it is walking, bicycling or transit.                      *)
C8_DrivingNeedsTrafficModel ==
    pc \in {"to_string", "rejected", "rendered"} =>
        /\ (outcome.tag = "Ok" /\ outcome.value.mode = "Driving")
              => outcome.value.traffic_model.some
        /\ (FieldsValid(record) /\ ~record.traffic_model.some) =>
              IF record.mode = <<"driving">>
              THEN outcome = Err([kind |-> "MissingTrafficModel"])
              ELSE outcome.tag = "Ok" /\ ~outcome.value.traffic_model.some

(* C8 witness: the record of test_missing_traffic_model was rejected with  *)
(* MissingTrafficModel.                                                    *)
C8_Witness ==
    /\ pc = "rejected"
    /\ FieldsValid(record)
    /\ record.mode = <<"driving">>
    /\ record.origin_lat = T_37_820189
    /\ ~record.avoidances.some
    /\ ~record.traffic_model.some
    /\ outcome = Err([kind |-> "MissingTrafficModel"])

(* The parameters of a query string: its pieces between "&", each split    *)
(* at "=".                                                                 *)
Params(text) ==
    LET parts == Split(text, "&")
    IN [i \in 1..Len(parts) |-> Split(parts[i], "=")]

(* C10: the rendered query string lists origin, destination,               *)
(* departure_time, mode, then avoid exactly when the avoidances are        *)
(* present, then traffic_model exactly when the traffic model is present,  *)
(* each once and in this order, and nothing else.                          *)
C10_ParameterOrder ==
    pc = "rendered" =>
        LET q == outcome.value
            params == Params(rendered)
            names == [i \in 1..Len(params) |-> params[i][1]]
        IN /\ \A i \in 1..Len(params) : Len(params[i]) = 2
           /\ names =
                 << <<"origin">>, <<"destination">>, <<"departure_time">>,
                    <<"mode">> >>
                 \o (IF q.avoidances.some THEN << <<"avoid">> >> ELSE <<>>)
                 \o (IF q.traffic_model.some THEN << <<"traffic_model">> >>
                     ELSE <<>>)

(* C10 witness: a Query with two avoidances and a traffic model was        *)
(* rendered.                                                               *)
C10_Witness ==
    /\ pc = "rendered"
    /\ outcome.value.avoidances.some
    /\ Cardinality(outcome.value.avoidances.v) = 2
    /\ outcome.value.traffic_model.some
    /\ Len(Params(rendered)) = 6

----------------------------------------------------------------------------
(* Properties of run *)

RowValid(row) ==
    row.ok /\ Query_from_csv_record(row.record, now).tag = "Ok"

SomeRowInvalid == \E i \in 1..Len(rows) : ~RowValid(rows[i])

(* C3: all records are validated before the first request is issued. If    *)
(* any record of the batch is invalid, read_csv yields no list of          *)
(* requests, the run ends with an error (exit status 1) once read_csv has  *)
(* run, and no request is ever sent, not even for the valid records that   *)
(* come before the invalid one; whenever a request has been sent, every    *)
(* record of the batch was valid.                                          *)
C3_ValidateBeforeDispatch ==
    /\ [](SomeRowInvalid =>
            /\ sent = <<>>
            /\ requests = <<>>
            /\ queries = None
            /\ pc \in {"load", "read_csv", "exit"}
            /\ pc = "exit" => exit_status = 1 /\ output = None)
    /\ [](sent # <<>> => \A i \in 1..Len(rows) : RowValid(rows[i]))
    /\ [][pc = "read_csv" /\ SomeRowInvalid =>
            pc' = "exit" /\ exit_status' = 1 /\ sent' = <<>>]_vars

(* C3 witness: a valid record followed by an invalid one; read_csv         *)
(* reported line 2 and the run exited with status 1 with nothing sent.     *)
C3_Witness ==
    /\ Len(rows) = 2
    /\ RowValid(rows[1])
    /\ ~RowValid(rows[2])
    /\ pc = "exit"
    /\ exit_status = 1
    /\ stderr # None
    /\ stderr[1] = [kind |-> "Line", ln |-> 2]
    /\ sent = <<>>

(* C9: every body the transport delivers ends in a tagged response and     *)
(* none makes the run fail: when execute_requests returns, entry i carries *)
(* the identifier of input i and the parsed value of the body delivered    *)
(* for it if that body is JSON, the MALFORMED_JSON fallback if it is not.  *)
C9_EveryBodyYieldsTaggedResponse ==
    /\ pc # "panic_from_utf8"
    /\ result.tag = "Ok" =>
          \A i \in 1..Len(requests) :
             /\ i <= Len(result.value)
             /\ result.value[i].id = requests[i].id
             /\ LET parsed == serde_json_from_str(delivered[i])
                IN result.value[i].response =
                      IF parsed.ok THEN parsed.value ELSE MalformedJson

----------------------------------------------------------------------------
(* Properties of Avoidances *)

(* C11: rendering is deterministic: two equal Queries (equal avoidance     *)
(* sets, however built) render to the identical text, and rendering the    *)
(* same Query twice gives the identical text.                              *)
C11_RenderingDeterministic ==
    (query_a # None /\ QueryWith(avoid_a) = QueryWith(avoid_b)) =>
        /\ query_a = query_a2
        /\ query_a = query_b

(* C12: the text a set of avoidances renders to parses back to an equal    *)
(* set, whatever order the rendering lists the tokens in.                  *)
C12_RenderParseRoundTrip ==
    reparsed # None =>
        /\ reparsed.tag = "Ok"
        /\ reparsed.value = avoid_a.members
        /\ reparsed.value = Avoidances_new(inp_a)

(* C12 witness: the set rendered as "highways|ferries|indoors|tolls" and   *)
(* the text parsed back to the four-member set.                            *)
C12_Witness ==
    /\ reparsed # None
    /\ text_a = << "highways", "|", "ferries", "|", "indoors", "|", "tolls" >>
    /\ reparsed.tag = "Ok"
    /\ reparsed.value = { "Tolls", "Highways", "Ferries", "Indoors" }

----------------------------------------------------------------------------
(* Properties of Coord::new *)

LatInRange(x) ==
    x.kind = "num" /\ -90 * Micro <= x.micro /\ x.micro <= 90 * Micro

LonInRange(x) ==
    x.kind = "num" /\ -180 * Micro <= x.micro /\ x.micro <= 180 * Micro

(* C13: Coord::new(lat, lon) succeeds exactly when -90 <= lat <= 90 and    *)
(* -180 <= lon <= 180, the bounds included, and fails for every other      *)
(* pair.                                                                   *)
C13_CoordAcceptsExactlyRange ==
    coord # None =>
        (coord.tag = "Ok" <=> (LatInRange(arg_lat) /\ LonInRange(arg_lon)))

(* C18: the error for an out-of-range coordinate carries the offending     *)
(* value: an out-of-range latitude gives InvalidLatitude with that         *)
(* latitude, an out-of-range longitude (latitude in range) gives           *)
(* InvalidLongitude with that longitude.                                   *)
C18_ErrorNamesOffendingValue ==
    coord # None =>
        /\ (arg_lat.kind = "num" /\ ~LatInRange(arg_lat)) =>
               /\ coord.tag = "Err"
               /\ coord.error = [kind |-> "InvalidLatitude", inv |-> arg_lat]
        /\ (LatInRange(arg_lat) /\ arg_lon.kind = "num"
              /\ ~LonInRange(arg_lon)) =>
               /\ coord.tag = "Err"
               /\ coord.error = [kind |-> "InvalidLongitude", inv |-> arg_lon]

----------------------------------------------------------------------------
(* Properties of TaggedUrl::new *)

(* The path-and-query text of the claim for query q rendered as qs *)
PremiumPathAndQuery(qs, creds) ==
    PATH \o <<"?">> \o qs \o <<"&", "client", "=">> \o creds.client_id
    \o (IF creds.channel.some
        THEN <<"&", "channel", "=">> \o creds.channel.v
        ELSE <<>>)

(* C14: with premium credentials, the URL of every request is the domain,  *)
(* then P, then "&signature=" and the signature of exactly P under the     *)
(* private key, where P is the path, "?", the query string of the Query,   *)
(* "&client=" and the client id, and "&channel=" and the channel exactly   *)
(* when one is supplied; the request carries the identifier of the Query.  *)
C14_PremiumUrlShape ==
    (requests # <<>> /\ credentials # None /\ credentials.kind = "Premium") =>
        /\ Len(requests) = Len(queries)
        /\ \A i \in 1..Len(requests) :
              /\ requests[i].id = queries[i].id
              /\ \E order \in IterOrders(AvoidancesOf(queries[i])) :
                    LET P == PremiumPathAndQuery(Query_fmt(queries[i], order),
                                                 credentials)
                        sig == sign_url(P, credentials.private_key)
                    IN /\ sig.tag = "Ok"
                       /\ requests[i].url =
                             DOMAIN_TEXT \o P \o <<"&", "signature", "=">>
                             \o sig.value

(* C14 witness: URLs were built with premium credentials, once with a      *)
(* channel and for a Query with two avoidances.                            *)
C14_Witness ==
    /\ requests # <<>>
    /\ credentials.kind = "Premium"
    /\ credentials.channel.some
    /\ \E i \in 1..Len(queries) : Cardinality(AvoidancesOf(queries[i])) = 2
    /\ \E i \in 1..Len(requests) :
          \E k \in 1..Len(requests[i].url) : requests[i].url[k] = "channel"

(* C14 witness without a channel: no channel parameter in the URL.         *)
C14_WitnessNoChannel ==
    /\ requests # <<>>
    /\ credentials.kind = "Premium"
    /\ ~credentials.channel.some
    /\ \A i \in 1..Len(requests) :
          \A k \in 1..Len(requests[i].url) : requests[i].url[k] # "channel"

----------------------------------------------------------------------------
(* Properties of sign_url *)

(* C15: sign_url is bit-exact on the known test vector: the text           *)
(* "/maps/api/geocode/json?address=New+York&client=clientID" signed with   *)
(* the key "vNIXE0xscrmjlyV-12Nj_BvUPaw=" gives                            *)
(* "chaRF2hTJKOScPr-RQCEhZbSzIE="; every signature is the URL-safe base64  *)
(* text of a 20-byte MAC, and a key that does not decode gives an error.   *)
C15_SignUrlTestVector ==
    signed # None =>
        /\ (arg_path_and_query = T_path_and_query
              /\ arg_private_key = T_private_key) =>
               signed = Ok(T_signature)
        /\ signed.tag = "Ok" <=> base64_decode_ok(arg_private_key)
        /\ signed.tag = "Ok" =>
              /\ Len(signed.value) = 28
              /\ signed.value[28] = "="
              /\ \A i \in 1..27 : signed.value[i] \in Base64UrlSafe
              /\ signed.value =
                    base64_encode_config(base64_decode_config(signed.value))

(* C15 witness: the test vector has been signed. *)
C15_Witness ==
    /\ signed # None
    /\ arg_path_and_query = T_path_and_query
    /\ arg_private_key = T_private_key
    /\ signed.tag = "Ok"
    /\ signed.value = T_signature

----------------------------------------------------------------------------
(* Properties of run, URL building *)

KeyDoesNotDecode ==
    /\ credentials.kind = "Premium"
    /\ ~base64_decode_ok(credentials.private_key)

(* C16: when building the URL of a request fails (here: the private key    *)
(* is not URL-safe base64 and there is a valid record to build a URL for), *)
(* the run surfaces the error like every other error: it ends with exit    *)
(* status 1 after reporting the error, and no request is sent.             *)
C16_UrlErrorSurfaced ==
    (/\ KeyDoesNotDecode
     /\ rows # <<>>
     /\ pc \notin {"load", "read_csv", "build_urls"}) =>
        /\ pc = "exit"
        /\ exit_status = 1
        /\ sent = <<>>

----------------------------------------------------------------------------
(* Properties of Query::from_csv_record, order of the checks *)

(* The first Err of a sequence of results, Absent when there is none *)
FirstErr(rs) ==
    IF \E i \in 1..Len(rs) : rs[i].tag = "Err"
    THEN Some(rs[CHOOSE i \in 1..Len(rs) :
                    rs[i].tag = "Err" /\ \A j \in 1..(i - 1) : rs[j].tag = "Ok"])
    ELSE Absent

(* The error of the earliest failing step when the steps are taken in the  *)
(* order: the four coordinate texts as floating point, the range checks of *)
(* origin and destination, the departure time as integer and as calendar   *)
(* instant, mode, avoidances, traffic model, missing traffic model.        *)
EarliestStepError(r) ==
    LET floats == FirstErr(<< to_f64(r.origin_lat), to_f64(r.origin_lon),
                              to_f64(r.destination_lat),
                              to_f64(r.destination_lon) >>)
        ranges == FirstErr(<<
            Coord_new(to_f64(r.origin_lat).value, to_f64(r.origin_lon).value),
            Coord_new(to_f64(r.destination_lat).value,
                      to_f64(r.destination_lon).value) >>)
        int == to_i64(r.departure_time)
        rest == FirstErr(<< Mode_from_str(r.mode),
                            ParseOptionalAvoidances(r.avoidances),
                            ParseOptionalTrafficModel(r.traffic_model) >>)
    IN IF floats.some THEN floats.v
       ELSE IF ranges.some THEN ranges.v
       ELSE IF int.tag = "Err" THEN int
       ELSE IF DepartureTime_new(int.value).tag = "Err"
       THEN DepartureTime_new(int.value)
       ELSE IF rest.some THEN rest.v
       ELSE Err([kind |-> "MissingTrafficModel"])

(* C17: a record that is rejected is rejected with the error of the        *)
(* earliest failing step, the steps taken in the order: coordinate texts   *)
(* as floating point, origin and destination range checks, departure time  *)
(* integer parse and calendar validity, mode, avoidances, traffic model,   *)
(* missing traffic model.                                                  *)
C17_EarliestStepErrorReturned ==
    pc = "rejected" => outcome = EarliestStepError(record)

----------------------------------------------------------------------------
(* Properties of execute_requests, retries and pacing *)

(* Every input position issued at most once, with its own URL, and all of *)
(* them once execute_requests has returned Ok.                             *)
SentOnce ==
    /\ \A k1, k2 \in 1..Len(sent) :
          sent[k1].src = sent[k2].src => k1 = k2
    /\ \A k \in 1..Len(sent) :
          /\ sent[k].src \in 1..Len(requests)
          /\ sent[k].url = requests[sent[k].src].url
    /\ result.tag = "Ok" =>
          /\ Len(sent) = Len(requests)
          /\ Issued = 1..Len(requests)

(* C19: no request of the input is issued more than once, also after a     *)
(* failure, every request issued is the URL of its input position, and     *)
(* when execute_requests returns Ok every input position has been issued   *)
(* exactly once.                                                           *)
C19_NoRetries ==
    /\ []SentOnce
    /\ [][failed # {} => sent' = sent]_vars

(* C19 witness: three inputs, two of them with the same URL, were          *)
(* dispatched in two chunks and execute_requests returned Ok.              *)
C19_Witness ==
    /\ result.tag = "Ok"
    /\ Len(requests) = 3
    /\ Len(chunks_log) = 2
    /\ requests[1].url = requests[3].url
    /\ Len(sent) = 3

(* The number of limiter waits that the position of the program calls for: *)
(* one per chunk handed out, less the chunk that is still running or that  *)
(* ended core.run with an error or a panic.                                *)
WaitsDue ==
    IF pc = "chunk_loop" \/ (pc = "returned" /\ result.tag = "Ok")
    THEN Len(chunks_log)
    ELSE Len(chunks_log) - 1

(* C20: pacing is per chunk. The limiter has been waited on once for       *)
(* every chunk that completed, a request of chunk k+1 is issued only after *)
(* k waits, a wait happens only when every request of the chunks handed    *)
(* out has resolved without failure, and never after a chunk that failed.  *)
C20_PacingPerChunk ==
    /\ [](waits = WaitsDue)
    /\ [](\A i \in Issued : waits >= ChunkOf(i) - 1)
    /\ [][waits' # waits =>
            /\ waits' = waits + 1
            /\ sent' = sent
            /\ in_progress = {} /\ pending = <<>> /\ queued_results = {}
            /\ failed = {}
            /\ Issued = 1..consumed
            /\ Issued \subseteq Range(completed)]_vars
    /\ [][failed # {} => waits' = waits]_vars

(* C20 witness: the second chunk is running after a first chunk of two     *)
(* requests and a single wait.                                             *)
C20_Witness ==
    /\ pc = "core_run"
    /\ Len(chunks_log) = 2
    /\ Len(chunks_log[1]) = 2
    /\ waits = 1
    /\ in_progress # {}

====
